---- MODULE Spec2Model ----
(***************************************************************************)
(* Model of src/app.py, the Streamlit voice-cloning page.                  *)
(*                                                                         *)
(* A script run is one execution of app.py from top to bottom for one      *)
(* browser session.  It is modelled as a sequence of steps (pc), one per   *)
(* statement group of the script, so that a stage can raise between any    *)
(* two of them.                                                            *)
(*                                                                         *)
(* Units.  Reference audio (before synthesis) is a sequence of blocks, one *)
(* per analysis hop of librosa.effects.trim; each block is its level in dB *)
(* relative to full scale, because the trimmer only compares levels.       *)
(* Synthesised audio (after synthesis) is a sequence of samples in units   *)
(* of 1e-9 of full scale, so that the 1e-9 of the normaliser is one unit.  *)
(***************************************************************************)
EXTENDS Integers, Sequences, FiniteSets, TLC

\* ---------------------------------------------------------------- bounds
\* Number of browser sessions that share the cached model.
NumSessions == 3
\* Longest buffer drawn as an input of the pure signal functions.
MaxLen == 4
\* Blocks per second at the target rate (16000 samples in the code).
target_sr == 2

\* ---------------------------------------------------------- small helpers
Sessions == 1..NumSessions
Foreground == {1}

Max(a, b) == IF a >= b THEN a ELSE b
Min(a, b) == IF a <= b THEN a ELSE b
Abs(x) == IF x < 0 THEN -x ELSE x
Sign(x) == IF x < 0 THEN -1 ELSE 1
Rep(x, n) == [i \in 1..n |-> x]
MaxAbs(y) == IF y = <<>> THEN 0
             ELSE CHOOSE m \in {Abs(y[i]) : i \in DOMAIN y} :
                      \A i \in DOMAIN y : Abs(y[i]) <= m
MaxOf(y) == CHOOSE m \in {y[i] : i \in DOMAIN y} : \A i \in DOMAIN y : y[i] <= m
AllZero(y) == \A i \in DOMAIN y : y[i] = 0
Count(q, x) == Cardinality({i \in DOMAIN q : q[i] = x})
IndexOf(q, x) == IF \E i \in DOMAIN q : q[i] = x
                 THEN CHOOSE i \in DOMAIN q : q[i] = x /\ \A j \in 1..(i-1) : q[j] # x
                 ELSE 0
SeqsUpTo(S, n) == UNION {[1..k -> S] : k \in 0..n}

\* a*b = q*c + r with 0 <= r < c, for 0 <= b < c < 2^30, without ever
\* forming the product (machine integers are 32 bits wide here).
RECURSIVE MulDivMod(_, _, _)
MulDivMod(a, b, c) ==
    IF a = 0 THEN <<0, 0>>
    ELSE LET h  == MulDivMod(a \div 2, b, c)
             t1 == 2 * h[2]
             q1 == 2 * h[1] + (IF t1 >= c THEN 1 ELSE 0)
             r1 == IF t1 >= c THEN t1 - c ELSE t1
             t2 == IF a % 2 = 1 THEN r1 + b ELSE r1
             q2 == q1 + (IF t2 >= c THEN 1 ELSE 0)
             r2 == IF t2 >= c THEN t2 - c ELSE t2
         IN  <<q2, r2>>

\* a*b/c rounded to the nearest integer.
RoundMulDiv(a, b, c) ==
    LET qr == MulDivMod(a, b, c)
    IN  qr[1] + (IF 2 * qr[2] >= c THEN 1 ELSE 0)

\* ------------------------------------------------------------ text input
\* text.strip(): drop leading and trailing whitespace.
RECURSIVE Strip(_)
Strip(t) ==
    IF t = <<>> THEN <<>>
    ELSE IF Head(t) = " " THEN Strip(Tail(t))
    ELSE IF t[Len(t)] = " " THEN Strip(SubSeq(t, 1, Len(t) - 1))
    ELSE t

Texts == { <<>>, <<" ", " ">>, <<" ", "x", " ">> }

\* ------------------------------------------------- reference audio (dB)
\* Digital silence; any level at or below AminDb behaves the same.
ZeroDb == 0 - 200
\* 20*log10(1e-4): the silence threshold t of the specification.
SilenceDb == 20 * (0 - 4)
DbLevels == {ZeroDb, 0 - 95, SilenceDb, 0 - 20}

\* librosa.effects.trim(y, top_db=30)
top_db == 30
\* amin = 1e-5 of librosa.amplitude_to_db, in dB
AminDb == 0 - 100

\* librosa.resample(y, orig_sr, target_sr): same rates return y itself;
\* otherwise ceil(n * target / orig) output blocks.  The band-limited
\* filter is represented by the block that covers the output position.
Resample(y, orig_sr, sr_out) ==
    IF orig_sr = sr_out THEN y
    ELSE LET n == (Len(y) * sr_out + orig_sr - 1) \div orig_sr
         IN  [i \in 1..n |-> y[Min(Len(y), ((i - 1) * orig_sr) \div sr_out + 1)]]

\* The same comparison without the amin floor.
NonSilent_NoFloor(y, db) ==
    {i \in DOMAIN y : y[i] - MaxOf(y) > 0 - db}

\* librosa.effects.trim(y, top_db): a block is non-silent when its level,
\* floored at amin, is less than top_db below the loudest block (ref=max).
NonSilent(y, db) ==
    {i \in DOMAIN y : Max(y[i], AminDb) - Max(MaxOf(y), AminDb) > 0 - db}

Trim(y, db) ==
    LET ns == NonSilent(y, db)
    IN  IF ns = {} THEN <<>>
        ELSE LET first == CHOOSE i \in ns : \A j \in ns : i <= j
                 last  == CHOOSE i \in ns : \A j \in ns : j <= i
             IN  SubSeq(y, first, last)

\* lines 86-88: trim, but keep the untrimmed buffer if less than 1 s remains
TrimOrKeep(y_res) ==
    LET yt == Trim(y_res, top_db)
    IN  IF Len(yt) < target_sr THEN y_res ELSE yt

\* sf.write(path, yt, target_sr): 16-bit PCM; a level under half an LSB
\* (-96 dB) is stored as digital silence.
WavEncodeDb(y) == [i \in DOMAIN y |-> IF y[i] < 0 - 96 THEN ZeroDb ELSE y[i]]

\* ------------------------------------------- synthesised audio (1e-9 fs)
Nano == 10^9
\* 0.98
PeakCeiling == 98 * (Nano \div 100)
\* 1e-9
Eps == 1
\* largest 16-bit sample value
PcmMax == 32767

\* librosa.effects.time_stretch(y, rate): round(n / rate) output samples;
\* rate is in percent.  The phase vocoder is represented by the input
\* sample at the stretched position.
Stretch(y, rate) ==
    LET n == (2 * Len(y) * 100 + rate) \div (2 * rate)
    IN  [i \in 1..n |-> y[Min(Len(y), ((i - 1) * rate) \div 100 + 1)]]

\* ---- single precision: a non-negative float32 is <<m, e>>, value m * 2^e,
\* with m = 0 or 2^23 <= m < 2^24 (np.float32 of y = wav.astype(np.float32))
Two23 == 2^23
Two24 == 2^24

\* round to nearest, ties to even: q with a remainder r out of 2*half
F32Round(q, r, half, e) ==
    LET up == r > half \/ (r = half /\ q % 2 = 1)
        m  == IF up THEN q + 1 ELSE q
    IN  IF m = Two24 THEN <<Two23, e + 1>> ELSE <<m, e>>

\* floor(log2(n)), n > 0
Log2(n) == CHOOSE k \in 0..30 : n \div 2^k = 1

\* np.float32(n * 1e-9) for a sample given in units of 1e-9: n / 10^9 is
\* n / 5^9 * 2^-9; n is scaled to 30 bits and divided by 5^9 ten bits at a
\* time, which gives the 24 bits of the mantissa, the rounding bit and
\* whether anything is left below it
F32FromNano(n) ==
    IF n = 0 THEN <<0, 0>>
    ELSE LET s  == Max(0, 29 - Log2(n))
             n1 == n * 2^s
             q0 == n1 \div 5^9
             r0 == n1 % 5^9
             d1 == (r0 * 2^10) \div 5^9
             r1 == (r0 * 2^10) % 5^9
             d2 == (r1 * 2^10) \div 5^9
             r2 == (r1 * 2^10) % 5^9
             Q  == q0 * 2^20 + d1 * 2^10 + d2
             k  == Log2(Q) - 23
         IN  F32Round(Q \div 2^k, 2 * (Q % 2^k) + (IF r2 # 0 THEN 1 ELSE 0),
                      2^k, k - 29 - s)

\* float32 a + b, both non-negative
F32Add(a, b) ==
    IF a[1] = 0 THEN b
    ELSE IF b[1] = 0 THEN a
    ELSE LET big == IF a[2] >= b[2] THEN a ELSE b
             sml == IF a[2] >= b[2] THEN b ELSE a
             d   == big[2] - sml[2]
         IN  IF d >= 27 THEN big
             ELSE LET sh  == (sml[1] * 8) \div (2^d)
                      st  == (sml[1] * 8) % (2^d) # 0
                      t   == big[1] * 8 + (IF st /\ sh % 2 = 0 THEN sh + 1 ELSE sh)
                  IN  IF t >= 2^27
                      THEN F32Round(t \div 16, t % 16, 8, big[2] + 1)
                      ELSE F32Round(t \div 8, t % 8, 4, big[2])

\* float32 a / b, b non-zero: long division of the mantissas, seven bits at
\* a time
F32Div(a, b) ==
    IF a[1] = 0 THEN <<0, 0>>
    ELSE LET q0 == a[1] \div b[1]
             r0 == a[1] % b[1]
             d1 == (r0 * 2^7) \div b[1]
             r1 == (r0 * 2^7) % b[1]
             d2 == (r1 * 2^7) \div b[1]
             r2 == (r1 * 2^7) % b[1]
             d3 == (r2 * 2^7) \div b[1]
             r3 == (r2 * 2^7) % b[1]
             d4 == (r3 * 2^7) \div b[1]
             r4 == (r3 * 2^7) % b[1]
             Q  == q0 * 2^28 + d1 * 2^21 + d2 * 2^14 + d3 * 2^7 + d4
             k  == Log2(Q) - 23
         IN  F32Round(Q \div 2^k, 2 * (Q % 2^k) + (IF r4 # 0 THEN 1 ELSE 0),
                      2^k, a[2] - b[2] - 28 + k)

\* a * b = q * 2^24 + r for a, b < 2^24, from the 12-bit halves
Mul24(a, b) ==
    LET ah  == a \div 2^12
        al  == a % 2^12
        bh  == b \div 2^12
        bl  == b % 2^12
        mid == ah * bl + al * bh
        low == al * bl + (mid % 2^12) * 2^12
    IN  <<ah * bh + mid \div 2^12 + low \div Two24, low % Two24>>

\* float32 a * b
F32Mul(a, b) ==
    IF a[1] = 0 \/ b[1] = 0 THEN <<0, 0>>
    ELSE LET p == Mul24(a[1], b[1])
         IN  IF p[1] >= Two23
             THEN F32Round(p[1], p[2], Two23, a[2] + b[2] + 24)
             ELSE F32Round(2 * p[1] + (IF p[2] >= Two23 THEN 1 ELSE 0),
                           p[2] % Two23, 2^22, a[2] + b[2] + 23)

\* a float32 below 2 in units of 1e-9, rounded: m * 5^9 / 2^j, j = -e - 9
F32ToNano(a) ==
    IF a[1] = 0 THEN 0
    ELSE LET j == 0 - a[2] - 9
             p == Mul24(a[1], 5^9)
             H == p[1]
             L == p[2]
         IN  IF j < 24
             THEN H * 2^(24 - j) + L \div (2^j)
                  + (IF 2 * (L % (2^j)) >= 2^j THEN 1 ELSE 0)
             ELSE IF j = 24 THEN H + (IF L >= Two23 THEN 1 ELSE 0)
             ELSE IF j - 24 >= 23 THEN 0
             ELSE H \div (2^(j - 24))
                  + (IF 2 * (H % (2^(j - 24))) >= 2^(j - 24) THEN 1 ELSE 0)

\* ---- double precision, for the sum of line 100 under NumPy 1: a positive
\* binary64 is <<h, l, e>>, value (h * 2^29 + l) * 2^e, with the upper 24
\* bits of the mantissa in h and the lower 29 in l
Frac == 30 + 52
Limb == 2^28

\* import numpy as np: the major version decides how the Python float 1e-9
\* is promoted against the float32 peak (value-based casting in 1, NEP 50
\* in 2)
NumpyMajors == {1, 2}

\* the Python float 1e-9 = 0x1.12e0be826d695p-30
EpsF64 == <<9007199, 136763029, 0 - Frac>>

\* the float32 a as binary64 (exact)
F64FromF32(a) == <<a[1], 0, a[2] - 29>>

Get(x, j) == IF j \in DOMAIN x THEN x[j] ELSE 0

\* the binary64 d as an integer multiple of 2^-Frac, in four limbs of 28
\* bits, least significant first (d at least 2^-Frac and below 2^28)
F64Limbs(d) ==
    LET sh == d[3] + Frac
        u  == sh \div 28
        v  == sh % 28
        x  == <<d[2] % Limb, 2 * d[1] + d[2] \div Limb>>
        limb(j) == (Get(x, j - u) % 2^(28 - v)) * 2^v + Get(x, j - u - 1) \div 2^(28 - v)
    IN  <<limb(1), limb(2), limb(3), limb(4)>>

\* index of the highest set bit of the limbs x, counted from 0
TopBit(x) ==
    LET j == CHOOSE j \in DOMAIN x : x[j] # 0 /\ \A i \in DOMAIN x : i > j => x[i] = 0
    IN  28 * (j - 1) + Log2(x[j])

\* what limb j contributes to the bits p .. p+w-1 of x
Part(x, j, p, w) ==
    LET lo == Max(p, 28 * (j - 1))
        hi == Min(p + w - 1, 28 * j - 1)
    IN  IF lo > hi THEN 0
        ELSE ((x[j] \div 2^(lo - 28 * (j - 1))) % 2^(hi - lo + 1)) * 2^(lo - p)

\* the bits p .. p+w-1 of x as a number
Field(x, p, w) == Part(x, 1, p, w) + Part(x, 2, p, w) + Part(x, 3, p, w) + Part(x, 4, p, w)

\* binary64 a + b: the exact sum, rounded to 53 bits, nearest, ties to even
F64Add(a, b) ==
    LET x  == F64Limbs(a)
        y  == F64Limbs(b)
        s1 == x[1] + y[1]
        s2 == x[2] + y[2] + s1 \div Limb
        s3 == x[3] + y[3] + s2 \div Limb
        s4 == x[4] + y[4] + s3 \div Limb
        S  == <<s1 % Limb, s2 % Limb, s3 % Limb, s4 % Limb>>
        t  == TopBit(S)
        h  == Field(S, t - 23, 24)
        l  == Field(S, t - 52, 29)
        up == /\ Field(S, t - 53, 1) = 1
              /\ (l % 2 = 1 \/ Field(S, 0, t - 53) # 0)
        e  == t - 52 - Frac
    IN  IF ~up THEN <<h, l, e>>
        ELSE IF l + 1 < 2^29 THEN <<h, l + 1, e>>
        ELSE IF h + 1 < Two24 THEN <<h + 1, 0, e>>
        ELSE <<Two23, 0, e + 1>>

\* binary64 -> float32, the cast of peak in y / peak
F32FromF64(d) == F32Round(d[1], d[2], 2^28, d[3] + 29)

\* line 100: peak = np.max(np.abs(y)) + 1e-9, as the float32 that line 101
\* divides by.  NumPy 1: the float32 maximum plus a Python float is a
\* binary64 sum, cast to float32 by the division.  NumPy 2: the Python float
\* takes the dtype of the maximum and the sum is float32.
Peak(m, major) ==
    IF major = 1
    THEN F32FromF64(F64Add(F64FromF32(F32FromNano(m)), EpsF64))
    ELSE F32Add(F32FromNano(m), F32FromF64(EpsF64))

Raised == [raised |-> TRUE, y |-> <<>>]
Returned(y) == [raised |-> FALSE, y |-> y]

\* lines 100-101 without the ceiling factor
Normalize_NoCeiling(y, major) ==
    IF y = <<>> THEN Raised
    ELSE LET peak == Peak(MaxAbs(y), major)
         IN  Returned([i \in DOMAIN y |->
                 Sign(y[i]) * F32ToNano(F32Div(F32FromNano(Abs(y[i])), peak))])

\* lines 100-101: peak = max|y| + 1e-9 ; y = 0.98 * (y / peak), the division
\* and the product in float32 (y is float32 and the Python float 0.98 takes
\* its dtype); np.max of an empty array raises ValueError
Normalize(y, major) ==
    IF y = <<>> THEN Raised
    ELSE LET peak == Peak(MaxAbs(y), major)
         IN  Returned([i \in DOMAIN y |->
                 Sign(y[i]) * F32ToNano(F32Mul(F32FromNano(PeakCeiling),
                                               F32Div(F32FromNano(Abs(y[i])), peak)))])

\* float sample -> 16-bit PCM
ToPcm16(x) == Sign(x) * Min(PcmMax, RoundMulDiv(Min(Abs(x), Nano), PcmMax, Nano))

\* wav_bytes_from_array(y, sr)
wav_bytes_from_array(y, sr) ==
    [format |-> "WAV", sr |-> sr, pcm |-> [i \in DOMAIN y |-> ToPcm16(y[i])]]

\* postprocess_rate_and_norm(wav, sr, rate_factor, do_norm), with a
\* time_stretch that returns
postprocess_rate_and_norm(wav, rate_factor, do_norm, major) ==
    LET y1 == IF rate_factor # 100 THEN Stretch(wav, rate_factor) ELSE wav
    IN  IF do_norm THEN Normalize(y1, major) ELSE Returned(y1)

\* ------------------------------------------------------------- inputs
NoFile == [kind |-> "none", sr |-> 0, y |-> <<>>]
Corrupt == [kind |-> "corrupt", sr |-> 0, y |-> <<>>]
Audio(sr, y) == [kind |-> "audio", sr |-> sr, y |-> y]

\* Uploads offered to the page: nothing, an undecodable file, two seconds of
\* digital silence, speech followed by silence recorded at twice the target
\* rate, and a clip too short to survive trimming.
RefFiles ==
    { NoFile, Corrupt,
      Audio(target_sr, Rep(ZeroDb, 2 * target_sr)),
      Audio(2 * target_sr, Rep(0 - 20, 2 * target_sr) \o Rep(ZeroDb, 2)),
      Audio(target_sr, <<0 - 20, ZeroDb>>) }

\* st.slider("Speaking rate", 0.75, 1.25, 1.00, 0.01), in percent
Rates == {75, 100, 125}

\* What the synthesis collaborator may write to its output file.
SynthOutputs ==
    { <<>>, <<0, 0>>, <<2 * Eps, 0 - Eps, Eps>>,
      <<0, 0 - (Nano \div 4), Nano \div 2>> }
ModelRates == {22050, 24000}

Buttons == {"none", "generate", "clear"}

\* ---------------------------------------------------------------- state
VARIABLES
    cache,    \* st.cache_resource entry of load_tts: 0 = empty, else handle
    lock,     \* compute lock of the cache entry: 0 = free, else the holder
    built,    \* number of TTS(...) constructions that completed
    pc,       \* per session: position of the running script
    tts,      \* per session: the script's global tts (0 = unbound)
    inp,      \* per session: widget values of the run
    st,       \* per session: st.session_state
    loc,      \* per session: local variables of the run block
    files,    \* per session: temp files of this invocation still on disk
    ui,       \* per session: messages shown by the run, in order
    trace,    \* per session: pipeline stages entered by the run, in order
    shown,    \* per session: the run rendered preview and download
    handed,   \* per session: arguments of the tts_to_file call of the run
    failed,   \* per session: stage that raised in the run ("" = none)
    before,   \* per session: st.session_state when the run started
    live,     \* per session: a Generate succeeded and no Clear came after
    fn,       \* harness of the pure signal functions
    numpy     \* major version of the numpy the process imported

vars == <<cache, lock, built, pc, tts, inp, st, loc, files, ui, trace,
          shown, handed, failed, before, live, fn, numpy>>

NoBytes == [format |-> "", sr |-> 0, pcm |-> <<>>]
EmptyState == [keys |-> {}, audio_bytes |-> NoBytes, preview_sr |-> 0]
NoCall == [called |-> FALSE, text |-> <<>>, speaker_wav |-> <<>>, model |-> 0]
LocInit == [y |-> <<>>, sr |-> 0, y_res |-> <<>>, yt |-> <<>>, ref_wav |-> <<>>,
            out_wav |-> <<>>, out_sr |-> 0, raw |-> <<>>, audio_bytes |-> NoBytes]
InpInit == [btn |-> "none", text |-> <<"x">>, ref |-> NoFile, rate |-> 100,
            normalize |-> TRUE]
FnIdle == [kind |-> "none", stage |-> "in", sr |-> 0, y |-> <<>>, mid |-> <<>>,
           out |-> <<>>, wav |-> <<>>, raised |-> FALSE]

InitPage ==
    /\ cache = 0 /\ lock = 0 /\ built = 0
    /\ pc = [s \in Sessions |-> "idle"]
    /\ tts = [s \in Sessions |-> 0]
    /\ inp = [s \in Sessions |-> InpInit]
    /\ st = [s \in Sessions |-> EmptyState]
    /\ loc = [s \in Sessions |-> LocInit]
    /\ files = [s \in Sessions |-> {}]
    /\ ui = [s \in Sessions |-> <<>>]
    /\ trace = [s \in Sessions |-> <<>>]
    /\ shown = [s \in Sessions |-> FALSE]
    /\ handed = [s \in Sessions |-> NoCall]
    /\ failed = [s \in Sessions |-> ""]
    /\ before = [s \in Sessions |-> EmptyState]
    /\ live = [s \in Sessions |-> FALSE]
    /\ numpy \in NumpyMajors

Init == InitPage /\ fn = FnIdle

shared == <<cache, lock, built>>
ghost == <<before, live>>

\* ------------------------------------------------------ start of a run
\* A widget interaction (or page load) starts the script from line 1.
BeginRun(s, btn, text, ref, rate, normalize) ==
    /\ pc' = [pc EXCEPT ![s] = "load_tts"]
    /\ inp' = [inp EXCEPT ![s] = [btn |-> btn, text |-> text, ref |-> ref,
                                  rate |-> rate, normalize |-> normalize]]
    /\ tts' = [tts EXCEPT ![s] = 0]
    /\ loc' = [loc EXCEPT ![s] = LocInit]
    /\ files' = [files EXCEPT ![s] = {}]
    /\ ui' = [ui EXCEPT ![s] = <<>>]
    /\ trace' = [trace EXCEPT ![s] = <<>>]
    /\ shown' = [shown EXCEPT ![s] = FALSE]
    /\ handed' = [handed EXCEPT ![s] = NoCall]
    /\ failed' = [failed EXCEPT ![s] = ""]
    /\ before' = [before EXCEPT ![s] = st[s]]
    /\ UNCHANGED <<shared, st, live, fn, numpy>>

\* The user presses a button (or just reloads) with some widget values.
RunStart(s) ==
    /\ pc[s] \in {"idle", "crashed"}
    /\ \E btn \in Buttons, text \in Texts, ref \in RefFiles, rate \in Rates,
          normalize \in BOOLEAN :
          BeginRun(s, btn, text, ref, rate, normalize)

\* A page load or rerun with no button pressed and the default widgets.
PageLoad(s) ==
    /\ pc[s] \in {"idle", "crashed"}
    /\ BeginRun(s, "none", InpInit.text, NoFile, 100, TRUE)

\* st.experimental_rerun(): the script starts over, no button pressed.
Rerun(s) ==
    /\ pc[s] = "rerun"
    /\ BeginRun(s, "none", inp[s].text, inp[s].ref, inp[s].rate, inp[s].normalize)

\* ------------------------------------------- load_tts (st.cache_resource)
local == <<inp, st, loc, files, ui, trace, shown, handed, failed, before, live, fn, numpy>>

\* Lookup without the compute lock: a miss goes straight to construction.
LoadTtsLookup_NoLock(s) ==
    /\ pc[s] = "load_tts"
    /\ IF cache # 0
       THEN /\ tts' = [tts EXCEPT ![s] = cache]
            /\ pc' = [pc EXCEPT ![s] = "buttons"]
       ELSE /\ pc' = [pc EXCEPT ![s] = "init"]
            /\ UNCHANGED tts
    /\ UNCHANGED <<shared, local>>

\* tts = load_tts(): cache hit returns the cached handle; a miss waits for
\* the compute lock of the entry.
LoadTtsLookup(s) ==
    /\ pc[s] = "load_tts"
    /\ IF cache # 0
       THEN /\ tts' = [tts EXCEPT ![s] = cache]
            /\ pc' = [pc EXCEPT ![s] = "buttons"]
       ELSE /\ pc' = [pc EXCEPT ![s] = "lock_wait"]
            /\ UNCHANGED tts
    /\ UNCHANGED <<shared, local>>

\* Lock acquired: look again, another run may have filled the entry.
LoadTtsLocked(s) ==
    /\ pc[s] = "lock_wait"
    /\ lock = 0
    /\ IF cache # 0
       THEN /\ tts' = [tts EXCEPT ![s] = cache]
            /\ pc' = [pc EXCEPT ![s] = "buttons"]
            /\ UNCHANGED lock
       ELSE /\ lock' = s
            /\ pc' = [pc EXCEPT ![s] = "init"]
            /\ UNCHANGED tts
    /\ UNCHANGED <<cache, built, local>>

\* return TTS(model_name=...): the constructor either completes and its
\* value is cached, or raises (download failure) and the script run dies
\* at line 26 with nothing cached.
LoadTtsInit(s) ==
    /\ pc[s] = "init"
    /\ \/ /\ built' = built + 1
          /\ cache' = built + 1
          /\ tts' = [tts EXCEPT ![s] = built + 1]
          /\ pc' = [pc EXCEPT ![s] = "buttons"]
       \/ /\ pc' = [pc EXCEPT ![s] = "crashed"]
          /\ UNCHANGED <<built, cache, tts>>
    /\ lock' = IF lock = s THEN 0 ELSE lock
    /\ UNCHANGED local

\* ------------------------------------------------ lines 71-74 and 113-118
Say(s, m) == ui' = [ui EXCEPT ![s] = Append(@, m)]
Enter(s, stage) == trace' = [trace EXCEPT ![s] = Append(@, stage)]
Goto(s, p) == pc' = [pc EXCEPT ![s] = p]

\* Only the audio is popped.
Clear_KeepsSr(s) ==
    /\ pc[s] = "buttons"
    /\ inp[s].btn = "clear"
    /\ st' = [st EXCEPT ![s].keys = @ \ {"audio_bytes"}, ![s].audio_bytes = NoBytes]
    /\ live' = [live EXCEPT ![s] = FALSE]
    /\ Goto(s, "rerun")
    /\ UNCHANGED <<shared, tts, inp, loc, files, ui, trace, shown, handed,
                   failed, before, fn, numpy>>

\* if clear_btn: pop both keys, rerun
Clear(s) ==
    /\ pc[s] = "buttons"
    /\ inp[s].btn = "clear"
    /\ st' = [st EXCEPT ![s] = EmptyState]
    /\ live' = [live EXCEPT ![s] = FALSE]
    /\ Goto(s, "rerun")
    /\ UNCHANGED <<shared, tts, inp, loc, files, ui, trace, shown, handed,
                   failed, before, fn, numpy>>

\* neither button pressed: the run block is skipped
NoButton(s) ==
    /\ pc[s] = "buttons"
    /\ inp[s].btn = "none"
    /\ Goto(s, "preview")
    /\ UNCHANGED <<shared, tts, inp, st, loc, files, ui, trace, shown, handed,
                   failed, ghost, fn, numpy>>

\* Input checks in the other order: the upload is looked at first.
RunBlock_RefFirst(s) ==
    /\ pc[s] = "buttons"
    /\ inp[s].btn = "generate"
    /\ IF inp[s].ref.kind = "none"
       THEN Say(s, "warn_ref") /\ Goto(s, "preview")
       ELSE IF Strip(inp[s].text) = <<>>
       THEN Say(s, "warn_text") /\ Goto(s, "preview")
       ELSE Say(s, "info_prepare") /\ Goto(s, "std_load")
    /\ UNCHANGED <<shared, tts, inp, st, loc, files, trace, shown, handed,
                   failed, ghost, fn, numpy>>

\* if run_btn: blank text -> warning; no upload -> warning; else the try block
RunBlock(s) ==
    /\ pc[s] = "buttons"
    /\ inp[s].btn = "generate"
    /\ IF Strip(inp[s].text) = <<>>
       THEN Say(s, "warn_text") /\ Goto(s, "preview")
       ELSE IF inp[s].ref.kind = "none"
       THEN Say(s, "warn_ref") /\ Goto(s, "preview")
       ELSE Say(s, "info_prepare") /\ Goto(s, "std_load")
    /\ UNCHANGED <<shared, tts, inp, st, loc, files, trace, shown, handed,
                   failed, ghost, fn, numpy>>

\* ---------------------------------------------------- except Exception
\* An except clause that shows nothing.
Raise_Silent(s, stage) ==
    /\ failed' = [failed EXCEPT ![s] = stage]
    /\ Goto(s, "preview")
    /\ UNCHANGED ui

\* line 166-167: the exception of any stage lands here: one st.error
Raise(s, stage) ==
    /\ failed' = [failed EXCEPT ![s] = stage]
    /\ Say(s, "error")
    /\ Goto(s, "preview")

\* ------------------------------------------ load_and_standardize (79-91)
\* line 81-83: librosa.load, warning for a short sample
StdLoad(s) ==
    /\ pc[s] = "std_load"
    /\ Enter(s, "load")
    /\ IF inp[s].ref.kind = "corrupt"
       THEN Raise(s, "load") /\ UNCHANGED loc
       ELSE /\ loc' = [loc EXCEPT ![s].y = inp[s].ref.y, ![s].sr = inp[s].ref.sr]
            /\ IF Len(inp[s].ref.y) < target_sr * 3
               THEN Say(s, "warn_short") ELSE UNCHANGED ui
            /\ Goto(s, "std_resample")
            /\ UNCHANGED failed
    /\ UNCHANGED <<shared, tts, inp, st, files, shown, handed, ghost, fn, numpy>>

\* line 84: y_res = librosa.resample(y, orig_sr=sr, target_sr=target_sr);
\* the call may raise
StdResample(s) ==
    /\ pc[s] = "std_resample"
    /\ Enter(s, "resample")
    /\ \/ /\ Raise(s, "resample")
          /\ UNCHANGED loc
       \/ /\ loc' = [loc EXCEPT ![s].y_res = Resample(loc[s].y, loc[s].sr, target_sr)]
          /\ Goto(s, "std_trim")
          /\ UNCHANGED <<ui, failed>>
    /\ UNCHANGED <<shared, tts, inp, st, files, shown, handed, ghost, fn, numpy>>

\* line 86-88: trim, keep y_res if under one second remains; the call may
\* raise
StdTrim(s) ==
    /\ pc[s] = "std_trim"
    /\ Enter(s, "trim")
    /\ \/ /\ Raise(s, "trim")
          /\ UNCHANGED loc
       \/ /\ loc' = [loc EXCEPT ![s].yt = TrimOrKeep(loc[s].y_res)]
          /\ Goto(s, "std_write")
          /\ UNCHANGED <<ui, failed>>
    /\ UNCHANGED <<shared, tts, inp, st, files, shown, handed, ghost, fn, numpy>>

\* The untrimmed buffer is written instead of yt.
StdWrite_Untrimmed(s) ==
    /\ pc[s] = "std_write"
    /\ Enter(s, "write_ref")
    /\ \/ /\ Raise(s, "write_ref")
          /\ UNCHANGED <<files, loc>>
       \/ /\ files' = [files EXCEPT ![s] = @ \cup {"ref"}]
          /\ Raise(s, "write_ref")
          /\ UNCHANGED loc
       \/ /\ files' = [files EXCEPT ![s] = @ \cup {"ref"}]
          /\ loc' = [loc EXCEPT ![s].ref_wav = WavEncodeDb(loc[s].y_res),
                                ![s].y = <<>>, ![s].sr = 0,
                                ![s].y_res = <<>>, ![s].yt = <<>>]
          /\ Say(s, "info_clone")
          /\ Goto(s, "synth_tmp")
          /\ UNCHANGED failed
    /\ UNCHANGED <<shared, tts, inp, st, shown, handed, ghost, fn, numpy>>

\* line 89-91: NamedTemporaryFile(delete=False) may raise (no file), sf.write
\* may raise (the file stays), or the path of the written file is returned
\* and line 123 announces the synthesis
StdWrite(s) ==
    /\ pc[s] = "std_write"
    /\ Enter(s, "write_ref")
    /\ \/ /\ Raise(s, "write_ref")
          /\ UNCHANGED <<files, loc>>
       \/ /\ files' = [files EXCEPT ![s] = @ \cup {"ref"}]
          /\ Raise(s, "write_ref")
          /\ UNCHANGED loc
       \/ /\ files' = [files EXCEPT ![s] = @ \cup {"ref"}]
          /\ loc' = [loc EXCEPT ![s].ref_wav = WavEncodeDb(loc[s].yt),
                                ![s].y = <<>>, ![s].sr = 0,
                                ![s].y_res = <<>>, ![s].yt = <<>>]
          /\ Say(s, "info_clone")
          /\ Goto(s, "synth_tmp")
          /\ UNCHANGED failed
    /\ UNCHANGED <<shared, tts, inp, st, shown, handed, ghost, fn, numpy>>

\* ------------------------------------------------- synthesis (123-146)
\* line 125: the temp file for the output
SynthTmp(s) ==
    /\ pc[s] = "synth_tmp"
    /\ \/ /\ Raise(s, "synth_tmp")
          /\ UNCHANGED files
       \/ /\ files' = [files EXCEPT ![s] = @ \cup {"out"}]
          /\ Goto(s, "synth")
          /\ UNCHANGED <<ui, failed>>
    /\ UNCHANGED <<shared, tts, inp, st, loc, trace, shown, handed, ghost, fn, numpy>>

\* line 130-146: tts.tts_to_file(text.strip(), out_wav_path, speaker_wav=ref_path)
Synth(s) ==
    /\ pc[s] = "synth"
    /\ Enter(s, "synth")
    /\ handed' = [handed EXCEPT ![s] =
                    [called |-> TRUE, text |-> Strip(inp[s].text),
                     speaker_wav |-> loc[s].ref_wav, model |-> tts[s]]]
    /\ \/ /\ Raise(s, "synth")
          /\ UNCHANGED loc
       \/ /\ \E y \in SynthOutputs, sr \in ModelRates :
                loc' = [loc EXCEPT ![s].out_wav = y, ![s].out_sr = sr]
          /\ Goto(s, "readback")
          /\ UNCHANGED <<ui, failed>>
    /\ UNCHANGED <<shared, tts, inp, st, files, shown, ghost, fn, numpy>>

\* ------------------------------------------- post-processing (149-155)
\* The collaborator output is stashed as soon as it is read.
ReadBack_StoresRaw(s) ==
    /\ pc[s] = "readback"
    /\ Enter(s, "readback")
    /\ \/ /\ Raise(s, "readback")
          /\ UNCHANGED <<loc, st>>
       \/ /\ loc' = [loc EXCEPT ![s].y = loc[s].out_wav, ![s].sr = loc[s].out_sr,
                                ![s].raw = loc[s].out_wav]
          /\ st' = [st EXCEPT ![s] =
                      [keys |-> {"audio_bytes", "preview_sr"},
                       audio_bytes |-> wav_bytes_from_array(loc[s].out_wav, loc[s].out_sr),
                       preview_sr |-> loc[s].out_sr]]
          /\ Goto(s, "stretch")
          /\ UNCHANGED <<ui, failed>>
    /\ UNCHANGED <<shared, tts, inp, files, shown, handed, ghost, fn, numpy>>

\* line 149: y, sr = sf.read(out_wav_path, dtype="float32")
ReadBack(s) ==
    /\ pc[s] = "readback"
    /\ Enter(s, "readback")
    /\ \/ /\ Raise(s, "readback")
          /\ UNCHANGED loc
       \/ /\ loc' = [loc EXCEPT ![s].y = loc[s].out_wav, ![s].sr = loc[s].out_sr,
                                ![s].raw = loc[s].out_wav]
          /\ Goto(s, "stretch")
          /\ UNCHANGED <<ui, failed>>
    /\ UNCHANGED <<shared, tts, inp, st, files, shown, handed, ghost, fn, numpy>>

\* line 96-98: time-stretch unless the rate is 1.0
RateAdjust(s) ==
    /\ pc[s] = "stretch"
    /\ IF inp[s].rate = 100
       THEN /\ Goto(s, "normalize")
            /\ UNCHANGED <<loc, trace, ui, failed>>
       ELSE /\ Enter(s, "stretch")
            /\ \/ /\ Raise(s, "stretch")
                  /\ UNCHANGED loc
               \/ /\ loc' = [loc EXCEPT ![s].y = Stretch(loc[s].y, inp[s].rate)]
                  /\ Goto(s, "normalize")
                  /\ UNCHANGED <<ui, failed>>
    /\ UNCHANGED <<shared, tts, inp, st, files, shown, handed, ghost, fn, numpy>>

\* The normaliser runs whatever the checkbox says.
NormalizeStep_Always(s) ==
    /\ pc[s] = "normalize"
    /\ Enter(s, "normalize")
    /\ LET r == Normalize(loc[s].y, numpy)
       IN  IF r.raised
           THEN Raise(s, "normalize") /\ UNCHANGED loc
           ELSE /\ loc' = [loc EXCEPT ![s].y = r.y]
                /\ Goto(s, "encode")
                /\ UNCHANGED <<ui, failed>>
    /\ UNCHANGED <<shared, tts, inp, st, files, shown, handed, ghost, fn, numpy>>

\* line 99-101: if do_norm; np.max of an empty array raises
NormalizeStep(s) ==
    /\ pc[s] = "normalize"
    /\ IF ~inp[s].normalize
       THEN /\ Goto(s, "encode")
            /\ UNCHANGED <<loc, trace, ui, failed>>
       ELSE /\ Enter(s, "normalize")
            /\ LET r == Normalize(loc[s].y, numpy)
               IN  IF r.raised
                   THEN Raise(s, "normalize") /\ UNCHANGED loc
                   ELSE /\ loc' = [loc EXCEPT ![s].y = r.y]
                        /\ Goto(s, "encode")
                        /\ UNCHANGED <<ui, failed>>
    /\ UNCHANGED <<shared, tts, inp, st, files, shown, handed, ghost, fn, numpy>>

\* line 151: audio_bytes = wav_bytes_from_array(y, sr)
EncodeStep(s) ==
    /\ pc[s] = "encode"
    /\ Enter(s, "encode")
    /\ \/ /\ Raise(s, "encode")
          /\ UNCHANGED loc
       \/ /\ loc' = [loc EXCEPT ![s].audio_bytes =
                                   wav_bytes_from_array(loc[s].y, loc[s].sr)]
          /\ Goto(s, "store_bytes")
          /\ UNCHANGED <<ui, failed>>
    /\ UNCHANGED <<shared, tts, inp, st, files, shown, handed, ghost, fn, numpy>>

\* line 154: st.session_state["audio_bytes"] = audio_bytes
StoreBytes(s) ==
    /\ pc[s] = "store_bytes"
    /\ Enter(s, "store")
    /\ st' = [st EXCEPT ![s].keys = @ \cup {"audio_bytes"},
                        ![s].audio_bytes = loc[s].audio_bytes]
    /\ Goto(s, "store_sr")
    /\ UNCHANGED <<shared, tts, inp, loc, files, ui, shown, handed, failed, ghost, fn, numpy>>

\* line 155: st.session_state["preview_sr"] = sr
StoreSr(s) ==
    /\ pc[s] = "store_sr"
    /\ st' = [st EXCEPT ![s].keys = @ \cup {"preview_sr"},
                        ![s].preview_sr = loc[s].sr]
    /\ Goto(s, "cleanup")
    /\ UNCHANGED <<shared, tts, inp, loc, files, ui, trace, shown, handed, failed,
                   ghost, fn, numpy>>

\* ------------------------------------------------- cleanup (157-164)
\* A removal that fails is not swallowed but reaches the outer handler.
Cleanup_Unguarded(s) ==
    /\ pc[s] = "cleanup"
    /\ \/ /\ files' = [files EXCEPT ![s] = @ \ {"ref", "out"}]
          /\ Goto(s, "success")
          /\ UNCHANGED <<ui, failed>>
       \/ /\ Raise(s, "cleanup")
          /\ UNCHANGED files
       \/ /\ files' = [files EXCEPT ![s] = @ \ {"ref"}]
          /\ Raise(s, "cleanup")
    /\ UNCHANGED <<shared, tts, inp, st, loc, trace, shown, handed, ghost, fn, numpy>>

\* line 158-162: remove ref then out; a failing os.remove skips what is left
\* of the try body and is swallowed
Cleanup(s) ==
    /\ pc[s] = "cleanup"
    /\ \/ files' = [files EXCEPT ![s] = @ \ {"ref", "out"}]
       \/ UNCHANGED files
       \/ files' = [files EXCEPT ![s] = @ \ {"ref"}]
    /\ Goto(s, "success")
    /\ UNCHANGED <<shared, tts, inp, st, loc, ui, trace, shown, handed, failed,
                   ghost, fn, numpy>>

\* line 164: st.success
Success(s) ==
    /\ pc[s] = "success"
    /\ Say(s, "success")
    /\ live' = [live EXCEPT ![s] = TRUE]
    /\ Goto(s, "preview")
    /\ UNCHANGED <<shared, tts, inp, st, loc, files, trace, shown, handed, failed,
                   before, fn, numpy>>

\* --------------------------------------------- preview/download (172-186)
Preview(s) ==
    /\ pc[s] = "preview"
    /\ shown' = [shown EXCEPT ![s] = "audio_bytes" \in st[s].keys]
    /\ Goto(s, "idle")
    /\ UNCHANGED <<shared, tts, inp, st, loc, files, ui, trace, handed, failed,
                   ghost, fn, numpy>>

\* ------------------------------------------------------- specification
Step(s) ==
    \/ RunStart(s)
    \/ Rerun(s)
    \/ LoadTtsLookup(s)
    \/ LoadTtsLocked(s)
    \/ LoadTtsInit(s)
    \/ Clear(s)
    \/ NoButton(s)
    \/ RunBlock(s)
    \/ StdLoad(s)
    \/ StdResample(s)
    \/ StdTrim(s)
    \/ StdWrite(s)
    \/ SynthTmp(s)
    \/ Synth(s)
    \/ ReadBack(s)
    \/ RateAdjust(s)
    \/ NormalizeStep(s)
    \/ EncodeStep(s)
    \/ StoreBytes(s)
    \/ StoreSr(s)
    \/ Cleanup(s)
    \/ Success(s)
    \/ Preview(s)

Next == \E s \in Foreground : Step(s)

Spec == Init /\ [][Next]_vars

\* ------------------------------------------- the shared model handle
\* Page loads of all sessions, interleaved: each runs the script with no
\* button pressed.
StepCache(s) ==
    \/ PageLoad(s)
    \/ LoadTtsLookup(s)
    \/ LoadTtsLocked(s)
    \/ LoadTtsInit(s)
    \/ NoButton(s)
    \/ Preview(s)

NextCache == \E s \in Sessions : StepCache(s)

SpecCache == Init /\ [][NextCache]_vars

\* --------------------------------------------- the pure signal functions
NormSamples == {0, Eps, 2 * Eps, 30518, 0 - (Nano \div 100), Nano \div 2, 0 - Nano}

FnInputs ==
    { [FnIdle EXCEPT !.kind = "std", !.sr = sr, !.y = y] :
          sr \in {target_sr, 2 * target_sr}, y \in SeqsUpTo(DbLevels, MaxLen) \ {<<>>} }
    \cup
    { [FnIdle EXCEPT !.kind = "norm", !.y = y] : y \in SeqsUpTo(NormSamples, MaxLen) }

InitFn == InitPage /\ fn \in FnInputs

page == <<cache, lock, built, pc, tts, inp, st, loc, files, ui, trace,
          shown, handed, failed, before, live, numpy>>

FnResample ==
    /\ fn.kind = "std" /\ fn.stage = "in"
    /\ fn' = [fn EXCEPT !.stage = "resampled",
                        !.mid = Resample(fn.y, fn.sr, target_sr)]
    /\ UNCHANGED page

FnTrim ==
    /\ fn.kind = "std" /\ fn.stage = "resampled"
    /\ fn' = [fn EXCEPT !.stage = "trimmed", !.out = TrimOrKeep(fn.mid)]
    /\ UNCHANGED page

FnWrite ==
    /\ fn.kind = "std" /\ fn.stage = "trimmed"
    /\ fn' = [fn EXCEPT !.stage = "out", !.wav = WavEncodeDb(fn.out)]
    /\ UNCHANGED page

FnNormalize ==
    /\ fn.kind = "norm" /\ fn.stage = "in"
    /\ LET r == postprocess_rate_and_norm(fn.y, 100, TRUE, numpy)
       IN  fn' = [fn EXCEPT !.stage = "out", !.out = r.y, !.raised = r.raised]
    /\ UNCHANGED page

NextFn == FnResample \/ FnTrim \/ FnWrite \/ FnNormalize

SpecFn == InitFn /\ [][NextFn]_vars

\* ===================================================== properties
Both == {"audio_bytes", "preview_sr"}
Ended(s) == pc[s] \in {"preview", "idle"}
Blank(s) == Strip(inp[s].text) = <<>>
Rejected(s) == inp[s].btn = "generate" /\ (Blank(s) \/ inp[s].ref.kind = "none")
Succeeded(s) == Count(ui[s], "success") = 1
\* the part of the trace that follows the synthesis call
AfterSynth(s) ==
    SubSeq(trace[s], IndexOf(trace[s], "synth") + 1, Len(trace[s]))

\* C1: when a stage of a Generate invocation raises, the session keys
\* audio_bytes and preview_sr are exactly what they were when the invocation
\* started, and an earlier result is still rendered by the preview block.
C1_FailureKeepsStoredResult ==
    \A s \in Sessions :
        failed[s] # "" =>
            /\ st[s] = before[s]
            /\ (pc[s] = "idle" /\ "audio_bytes" \in before[s].keys => shown[s])

C1_Witness ==
    \E s \in Sessions :
        /\ pc[s] = "idle" /\ failed[s] = "stretch"
        /\ before[s].keys = Both /\ st[s] = before[s] /\ shown[s]

\* C2 as stated: the trimmer runs on the native-rate buffer, before the
\* resampler.
C2_TrimBeforeResample ==
    \A s \in Sessions :
        handed[s].called =>
            SubSeq(trace[s], 1, 3) = <<"load", "trim", "resample">>

\* C2 amended: the stages run in the order Loader, Resampler, Trimmer (with
\* the keep-if-under-one-second rule), and the collaborator receives exactly
\* the re-encoded result of that chain.
C2_ResampleBeforeTrim ==
    \A s \in Sessions :
        handed[s].called =>
            /\ SubSeq(trace[s], 1, 5) =
                   <<"load", "resample", "trim", "write_ref", "synth">>
            /\ handed[s].speaker_wav =
                   WavEncodeDb(TrimOrKeep(Resample(inp[s].ref.y, inp[s].ref.sr,
                                                   target_sr)))

C2_Witness ==
    \E s \in Sessions :
        /\ handed[s].called
        /\ inp[s].ref.sr = 2 * target_sr
        /\ handed[s].speaker_wav = Rep(0 - 20, target_sr)

\* C3: in a successful invocation the post-synthesis stages are read-back,
\* rate adjuster, normaliser, encoder, in this order; the normaliser runs
\* exactly when the checkbox is set; the stored bytes are the encoding of
\* the last stage's output.
C3_PostSynthesisOrder ==
    \A s \in Sessions :
        /\ ("normalize" \in {trace[s][i] : i \in DOMAIN trace[s]} => inp[s].normalize)
        /\ Succeeded(s) =>
            /\ AfterSynth(s) =
                   <<"readback">>
                   \o (IF inp[s].rate # 100 THEN <<"stretch">> ELSE <<>>)
                   \o (IF inp[s].normalize THEN <<"normalize">> ELSE <<>>)
                   \o <<"encode", "store">>
            /\ st[s].keys = Both
            /\ st[s].audio_bytes =
                   wav_bytes_from_array(
                       postprocess_rate_and_norm(loc[s].raw, inp[s].rate,
                                                 inp[s].normalize, numpy).y,
                       loc[s].out_sr)
            /\ st[s].preview_sr = loc[s].out_sr

C3_Witness ==
    \E s \in Sessions :
        /\ Succeeded(s) /\ pc[s] = "idle"
        /\ inp[s].rate = 125 /\ inp[s].normalize
        /\ Len(loc[s].raw) = 3
        /\ st[s].audio_bytes.pcm = <<0, 0 - ToPcm16(PeakCeiling)>>

\* C4: the model handle is constructed at most once, no two constructions
\* overlap, and every run that got past load_tts holds the one cached handle.
C4_SingleInitialization ==
    /\ built <= 1
    /\ Cardinality({s \in Sessions : pc[s] = "init"}) <= 1
    /\ \A s \in Sessions :
           pc[s] \in {"buttons", "preview"} => tts[s] = 1 /\ cache = 1

C4_Witness ==
    \E s, t \in Sessions :
        /\ s # t
        /\ pc[s] = "buttons" /\ pc[t] = "buttons"
        /\ tts[s] = 1 /\ tts[t] = 1 /\ built = 1

\* C5: an invocation in which a stage raised shows exactly one error and no
\* success message; one in which none raised shows no error.
C5_ExactlyOneError ==
    \A s \in Sessions :
        /\ (Ended(s) /\ failed[s] # "" =>
                Count(ui[s], "error") = 1 /\ Count(ui[s], "success") = 0)
        /\ (failed[s] = "" => Count(ui[s], "error") = 0)

C5_Witness ==
    \E s \in Sessions :
        /\ pc[s] = "idle" /\ failed[s] = "synth"
        /\ Count(ui[s], "error") = 1 /\ Count(ui[s], "success") = 0

\* 1e-6, the tolerance of the specification's peak scenario
Tol == Nano \div (10^6)
\* 0.01: from here on the 1e-9 moves the peak by less than 1e-6
Loud == Nano \div 100
NormDone == fn.kind = "norm" /\ fn.stage = "out"

\* C6 as stated: every buffer that is not all-zero comes out with peak p;
\* an all-zero buffer comes out all-zero.
C6_PeakEqualsCeiling ==
    NormDone =>
        /\ (~AllZero(fn.y) => Abs(PeakCeiling - MaxAbs(fn.out)) <= Tol)
        /\ (AllZero(fn.y) => AllZero(fn.out))

\* C6 amended: a non-empty buffer of peak m comes out with peak
\* p*m/(m + 1e-9) up to single-precision rounding: never above float32(p),
\* within 1e-6 of p once m >= 0.01, about p/2 at m = 1e-9; all-zero stays
\* all-zero; an empty buffer raises; the numpy major version matters for no
\* peak but 2e-9.
C6_PeakBelowCeiling ==
    NormDone =>
        IF fn.y = <<>> THEN fn.raised
        ELSE LET m == MaxAbs(fn.y) IN
             /\ ~fn.raised
             /\ Len(fn.out) = Len(fn.y)
             /\ Abs(MaxAbs(fn.out) - RoundMulDiv(PeakCeiling, m, m + Eps)) <= Tol
             /\ MaxAbs(fn.out) <= F32ToNano(F32FromNano(PeakCeiling))
             /\ (m >= Loud => Abs(PeakCeiling - MaxAbs(fn.out)) <= Tol)
             /\ (m = Eps => Abs(MaxAbs(fn.out) - PeakCeiling \div 2) <= Tol)
             /\ (AllZero(fn.y) => AllZero(fn.out))
             /\ (m # 2 * Eps => fn.out = Normalize(fn.y, 3 - numpy).y)

C6_Witness ==
    /\ NormDone
    /\ fn.y = <<Nano \div 2, 0 - (Nano \div 100)>>
    /\ Abs(PeakCeiling - MaxAbs(fn.out)) <= Tol
    /\ MaxAbs(fn.out) = F32ToNano(F32FromNano(PeakCeiling))

\* every block of y is at or below the silence threshold
Quiet(y) == \A i \in DOMAIN y : y[i] <= SilenceDb

\* C7: a resampled buffer whose blocks are all at or below the silence
\* threshold is written for the collaborator in full, untrimmed.
C7_QuietBufferUntrimmed ==
    (fn.kind = "std" /\ fn.stage = "out" /\ Quiet(fn.mid)) =>
        /\ fn.out = fn.mid
        /\ fn.wav = WavEncodeDb(fn.mid)

C7_Witness ==
    /\ fn.kind = "std" /\ fn.stage = "out"
    /\ fn.sr = target_sr
    /\ fn.y = Rep(ZeroDb, 2 * target_sr)
    /\ fn.wav = fn.y

\* C8: at the end of a run both keys are present or both absent; they are
\* present, and the preview and download rendered, exactly when a Generate
\* has succeeded with no Clear since; a Clear run ends with both keys gone
\* before the run block and before the preview block.
C8_PreviewIffLiveResult ==
    \A s \in Sessions :
        /\ (pc[s] \in {"idle", "crashed"} =>
               /\ st[s].keys \in {{}, Both}
               /\ ("audio_bytes" \in st[s].keys <=> live[s])
               /\ (shown[s] <=> live[s]))
        /\ (pc[s] = "rerun" =>
               st[s].keys = {} /\ trace[s] = <<>> /\ ui[s] = <<>> /\ ~shown[s])

C8_Witness ==
    \E s \in Sessions :
        /\ pc[s] = "idle" /\ inp[s].btn = "none"
        /\ live[s] /\ shown[s] /\ st[s].keys = Both

\* C9: a Generate with blank text or without an upload enters no stage,
\* calls no collaborator, creates no temp file, leaves the stored result
\* alone and shows one warning, the blank-text one when both are missing.
C9_RejectedInputRunsNothing ==
    \A s \in Sessions :
        (Rejected(s) /\ Ended(s)) =>
            /\ trace[s] = <<>>
            /\ ~handed[s].called
            /\ files[s] = {}
            /\ st[s] = before[s]
            /\ ui[s] = <<IF Blank(s) THEN "warn_text" ELSE "warn_ref">>

C9_Witness ==
    \E s \in Sessions :
        /\ pc[s] = "idle" /\ inp[s].btn = "generate"
        /\ Blank(s) /\ inp[s].ref.kind = "none"
        /\ ui[s] = <<"warn_text">>

\* C10: when an invocation has ended, none of its temp files is left.
C10_NoTempFileOutlivesRun ==
    \A s \in Sessions : pc[s] = "idle" => files[s] = {}

====
